---------------------------- MODULE Spec2Model ----------------------------
(***************************************************************************)
(* A model of gpx_to_csv_app.py: the GPX flattener, the distance filter    *)
(* with its bearing annotation, the CSV writer/reader, the per-file batch  *)
(* loops of the converter tabs and the frame-extraction loop.              *)
(*                                                                         *)
(* Units.  A coordinate is an integer number of 1e-5 degrees, and every    *)
(* coordinate of the model lies within a few 1e-4 degrees of (0, 0).       *)
(* Distances are integers of 0.1 mm, bearings integers of 0.001 degree,    *)
(* timestamps integers of 0.1 s.                                           *)
(*                                                                         *)
(* Python values are tagged records, because the code relies on dynamic    *)
(* typing (float() of a float from gpxpy, float() of a str from the csv    *)
(* module): [float |-> n], [int |-> n], [str |-> s].                       *)
(***************************************************************************)
EXTENDS Integers, Sequences, FiniteSets, TLC

VARIABLES
    pc,              \* position of the running handler
    gpx,             \* SpecFlatten: the parsed track document
    rows,            \* the list of row dicts a handler works on
    filtered,        \* the result of filter_rows (a value or a raised exception)
    uploaded_csv,    \* tab2: the uploaded CSV file
    tab,             \* SpecBatch: which batch tab runs ("tab1" or "tab3")
    uploaded_files,  \* tab1/tab3: the uploaded batch
    file_no,         \* tab1/tab3: position of the for loop over uploaded_files
    downloads,       \* st.download_button calls made so far
    messages,        \* st.success / st.warning / st.error calls made so far
    calls,           \* file indexes handed to convert_gpx_to_rows so far
    df,              \* tab4: the metadata table
    fps,             \* tab4: video.get(CAP_PROP_FPS)
    frame_count,     \* tab4: number of frames of the uploaded video
    video,           \* tab4: state of the cv2.VideoCapture handle
    index,           \* tab4: position of the for loop over df.iterrows()
    seeks,           \* tab4: (row, frame_no) of every video.set call
    images           \* tab4: image files in the output folder

vars == <<pc, gpx, rows, filtered, uploaded_csv, tab, uploaded_files, file_no,
          downloads, messages, calls, df, fps, frame_count, video, index,
          seeks, images>>

-----------------------------------------------------------------------------
(* Bounds of the model.                                                    *)

MaxRows == 3        \* rows handed to filter_rows in SpecFilter
MaxLen == 2         \* tracks per document and segments per track
MaxCsvRows == 2     \* data rows of the CSV uploaded to tab2
MaxFiles == 3       \* files of one batch upload
MaxPoints == 3      \* rows of the metadata table of tab4

-----------------------------------------------------------------------------
(* Python values and exceptions.                                           *)

PyFloat(n) == [float |-> n]
PyInt(n) == [int |-> n]
PyStr(s) == [str |-> s]

Return(v) == [value |-> v]
Raise(e) == [raised |-> e]
IsRaised(r) == "raised" \in DOMAIN r

\* The coordinates of the model, in 1e-5 degrees: 0.0, 2e-05, 4e-05, 0.0001.
Coords == {0, 2, 4, 10}

\* str(x) of a coordinate float, as csv.DictWriter renders it.
FloatRepr(n) == ToString(n) \o "e-05"

\* float(v): a float is returned as it is; a str is parsed, and text that is
\* no number raises ValueError.
float(v) ==
    IF "float" \in DOMAIN v THEN Return(v.float)
    ELSE IF "int" \in DOMAIN v THEN Return(v.int)
    ELSE IF \E n \in Coords : FloatRepr(n) = v.str
         THEN Return(CHOOSE n \in Coords : FloatRepr(n) = v.str)
         ELSE Raise("ValueError")

\* str(v), as csv.DictWriter renders a cell.
str(v) ==
    IF "float" \in DOMAIN v THEN FloatRepr(v.float)
    ELSE IF "int" \in DOMAIN v THEN ToString(v.int)
    ELSE v.str

-----------------------------------------------------------------------------
(* Constants of the program.                                               *)

THRESHOLD_FT == 13
\* 13 * 0.3048 m, in 0.1 mm (0.3048 m = 3048 * 0.1 mm).
THRESHOLD_M == THRESHOLD_FT * 3048
DEFAULT_FRAME_ID == -2147483647 - 1
R == 6371000

-----------------------------------------------------------------------------
(* GeoMath.                                                                *)

\* math.sqrt on naturals: the integer part of the square root.
RECURSIVE SqrtSearch(_, _, _)
SqrtSearch(n, lo, hi) ==
    IF lo >= hi THEN lo
    ELSE LET mid == (lo + hi + 1) \div 2
         IN IF mid * mid <= n THEN SqrtSearch(n, mid, hi)
            ELSE SqrtSearch(n, lo, mid - 1)

sqrt(n) == SqrtSearch(n, 0, 46340)

\* R * radians(1e-5 degree): the arc, in 0.1 mm, of one coordinate unit
\* (pi/180 * 1e-5 = 1.7453e-7).
ArcPerUnit == ((R \div 1000) * 17453) \div 10000

\* haversine, in 0.1 mm.  Within a few 1e-4 degrees of (0, 0) the code's
\* terms reduce, to a relative error below 1e-9, to sin(x) = x,
\* cos(phi1) * cos(phi2) = 1 and atan2(sqrt(a), sqrt(1 - a)) = sqrt(a), so
\* that c = 2 * sqrt(a) = sqrt(d_phi^2 + d_lambda^2).  a4 is 4 * a in squared
\* coordinate units and c is in 1/1000 coordinate unit.
haversine(lat1, lon1, lat2, lon2) ==
    LET d_phi == lat2 - lat1
        d_lambda == lon2 - lon1
        a4 == d_phi * d_phi + d_lambda * d_lambda
        c == sqrt(a4 * 1000000)
    IN (ArcPerUnit * c) \div 1000

\* atan(2^-i) in 0.001 degree, i = 0..13.
AtanTable == <<45000, 26565, 14036, 7125, 3576, 1790, 895, 448, 224, 112,
               56, 28, 14, 7>>

\* Vectoring CORDIC: rotates (x, y), x > 0, onto the x axis and returns the
\* angle turned, in 0.001 degree.
RECURSIVE Cordic(_, _, _, _)
Cordic(x, y, i, angle) ==
    IF i > Len(AtanTable) \/ y = 0 THEN angle
    ELSE LET s == 2 ^ (i - 1)
         IN IF y > 0
            THEN Cordic(x + (y \div s), y - (x \div s), i + 1, angle + AtanTable[i])
            ELSE Cordic(x - (y \div s), y + (x \div s), i + 1, angle - AtanTable[i])

\* math.degrees(math.atan2(y, x)) in 0.001 degree, within (-180, 180].
atan2(y, x) ==
    IF x = 0 /\ y = 0 THEN 0
    ELSE IF x < 0
         THEN (IF y >= 0 THEN 180000 ELSE -180000) + Cordic(-x * 4096, -y * 4096, 1, 0)
         ELSE Cordic(x * 4096, y * 4096, 1, 0)

\* calculate_bearing, in 0.001 degree.  In the same regime
\* x = sin(dLon) * cos(lat2) = dLon and
\* y = cos(lat1) * sin(lat2) - sin(lat1) * cos(lat2) * cos(dLon) = lat2 - lat1.
calculate_bearing(lat1, lon1, lat2, lon2) ==
    LET dLon == lon2 - lon1
        x == dLon
        y == lat2 - lat1
        bearing == atan2(x, y)
    IN (bearing + 360000) % 360000

directions == <<"N", "NE", "E", "SE", "S", "SW", "W", "NW">>

\* get_direction: bucket of 45 degrees, offset by 22.5.
get_direction(bearing) ==
    LET idx == ((bearing + 22500) \div 45000) % 8
    IN directions[idx + 1]

\* direction[0] if direction else ''.
FirstChar(direction) ==
    IF direction = "" THEN "" ELSE SubSeq(direction, 1, 1)

-----------------------------------------------------------------------------
(* TrackFlattener: convert_gpx_to_rows.                                     *)

PyNone == [none |-> TRUE]
PyDatetime(t) == [datetime |-> t]

\* datetime.isoformat() of the instant t tenths of a second after
\* 2024-01-01T00:00:00; the fraction is left out when it is zero.
isoformat(t) ==
    "2024-01-01T00:00:" \o (IF t \div 10 < 10 THEN "0" ELSE "")
        \o ToString(t \div 10)
        \o (IF t % 10 = 0 THEN "" ELSE "." \o ToString(t % 10) \o "00000")

\* The dict appended for one point.
MakeRow(trkpt_id, point) ==
    [trkpt_id |-> PyInt(trkpt_id),
     frame_latitude |-> PyFloat(point.latitude),
     frame_longitude |-> PyFloat(point.longitude),
     frame_time |-> PyStr(IF "datetime" \in DOMAIN point.time
                          THEN isoformat(point.time.datetime) ELSE "")]

\* The value of trkpt_id a track starts with: the counter is set once, before
\* the loops, and carried from track to track.
TrackStartIdReset(trkpt_id) == 0
TrackStartId(trkpt_id) == trkpt_id

\* for point in segment.points: append a row, trkpt_id += 1.
RECURSIVE SegmentRows(_, _, _)
SegmentRows(points, p, trkpt_id) ==
    IF p > Len(points) THEN <<>>
    ELSE <<MakeRow(trkpt_id, points[p])>> \o SegmentRows(points, p + 1, trkpt_id + 1)

\* for segment in track.segments.
RECURSIVE TrackRows(_, _, _)
TrackRows(segments, s, trkpt_id) ==
    IF s > Len(segments) THEN <<>>
    ELSE LET here == SegmentRows(segments[s], 1, trkpt_id)
         IN here \o TrackRows(segments, s + 1, trkpt_id + Len(here))

\* for track in gpx.tracks.
RECURSIVE GpxRows(_, _, _)
GpxRows(tracks, t, trkpt_id) ==
    IF t > Len(tracks) THEN <<>>
    ELSE LET here == TrackRows(tracks[t], 1, TrackStartId(trkpt_id))
         IN here \o GpxRows(tracks, t + 1, TrackStartId(trkpt_id) + Len(here))

\* An uploaded file is [bytes |-> "not utf-8"], [text |-> "not gpx"] or
\* [tracks |-> <<...>>], the document gpxpy.parse returns.
convert_gpx_to_rows(uploaded_file) ==
    IF "bytes" \in DOMAIN uploaded_file THEN Raise("UnicodeDecodeError")
    ELSE IF "text" \in DOMAIN uploaded_file THEN Raise("GPXXMLSyntaxException")
    ELSE Return(GpxRows(uploaded_file.tracks, 1, 0))

-----------------------------------------------------------------------------
(* TrackDecimator: filter_rows.                                             *)

\* float(point['frame_latitude']), float(point['frame_longitude']).
LatLon(point) ==
    IF "frame_latitude" \notin DOMAIN point THEN Raise("KeyError")
    ELSE IF IsRaised(float(point["frame_latitude"])) THEN Raise("ValueError")
    ELSE IF "frame_longitude" \notin DOMAIN point THEN Raise("KeyError")
    ELSE IF IsRaised(float(point["frame_longitude"])) THEN Raise("ValueError")
    ELSE Return(<<float(point["frame_latitude"]).value,
                  float(point["frame_longitude"]).value>>)

\* {**point, 'frame_id': ..., 'direction': ..., 'cardinal_direction': ...}
Annotate(point, direction, cardinal) ==
    [k \in DOMAIN point \cup {"frame_id", "direction", "cardinal_direction"} |->
        IF k = "frame_id" THEN PyInt(DEFAULT_FRAME_ID)
        ELSE IF k = "direction" THEN PyStr(direction)
        ELSE IF k = "cardinal_direction" THEN PyStr(cardinal)
        ELSE point[k]]

\* if distance >= THRESHOLD_M
MovedAny(distance) == distance > 0
Moved(distance) == distance >= THRESHOLD_M

\* last_lat, last_lon after a candidate: the candidate when it was retained,
\* otherwise unchanged.
RebaseAlways(last, candidate, retained) == candidate
Rebase(last, candidate, retained) == IF retained THEN candidate ELSE last

\* The row appended for a retained candidate.
Retained(last, point, at) ==
    LET bearing == calculate_bearing(last[1], last[2], at[1], at[2])
        direction == get_direction(bearing)
        cardinal == FirstChar(direction)
    IN Annotate(point, direction, cardinal)

\* for point in rows[1:]
RECURSIVE FilterLoop(_, _, _, _)
FilterLoop(rs, k, last, filtered_rows) ==
    IF k > Len(rs) THEN Return(filtered_rows)
    ELSE LET point == rs[k]
             at == LatLon(point)
         IN IF IsRaised(at) THEN at
            ELSE LET distance == haversine(last[1], last[2], at.value[1], at.value[2])
                     retained == Moved(distance)
                 IN FilterLoop(rs, k + 1, Rebase(last, at.value, retained),
                               IF retained
                               THEN Append(filtered_rows, Retained(last, point, at.value))
                               ELSE filtered_rows)

filter_rows(rs) ==
    IF Len(rs) = 0 THEN Raise("IndexError")
    ELSE LET first == rs[1]
             at == LatLon(first)
         IN IF IsRaised(at) THEN at
            ELSE FilterLoop(rs, 2, at.value, <<Annotate(first, "", "")>>)

-----------------------------------------------------------------------------
(* TabularCodec: write_csv and csv.DictReader.                              *)

SeqRange(q) == {q[i] : i \in DOMAIN q}

\* One written line: the row's cells in fieldnames order, '' for a missing key.
CsvLine(row, fieldnames) ==
    [i \in DOMAIN fieldnames |->
        IF fieldnames[i] \in DOMAIN row THEN str(row[fieldnames[i]]) ELSE ""]

\* csv.DictWriter: the header, then one line per row; a row with a key that
\* is not in fieldnames raises ValueError (extrasaction='raise').
write_csv(data, fieldnames) ==
    IF \E i \in DOMAIN data : ~(DOMAIN data[i] \subseteq SeqRange(fieldnames))
    THEN Raise("ValueError")
    ELSE Return([header |-> fieldnames,
                 lines |-> [i \in DOMAIN data |-> CsvLine(data[i], fieldnames)]])

\* list(csv.DictReader(csv_lines)): one dict of str per data line, keyed by
\* the header's columns.  An uploaded CSV is [bytes |-> "not utf-8"] or
\* [header |-> <<columns>>, lines |-> <<cells of each line>>]; a file without
\* any line has the empty header.
DictReader(csv) ==
    [i \in DOMAIN csv.lines |->
        [c \in SeqRange(csv.header) |->
            PyStr(csv.lines[i][CHOOSE j \in DOMAIN csv.header : csv.header[j] = c])]]

RawFields == <<"trkpt_id", "frame_latitude", "frame_longitude", "frame_time">>
MetaFields == RawFields \o <<"frame_id", "direction", "cardinal_direction">>

-----------------------------------------------------------------------------
(* Variables a specification does not use keep these values.                *)

FlattenIdle == gpx = <<>>
FilterIdle == filtered = Return(<<>>)
TabsIdle ==
    /\ uploaded_csv = [header |-> <<>>, lines |-> <<>>]
    /\ tab = "none"
    /\ uploaded_files = <<>>
    /\ file_no = 0
    /\ downloads = <<>>
    /\ calls = <<>>
FramesIdle ==
    /\ df = <<>>
    /\ fps = 0
    /\ frame_count = 0
    /\ video = "none"
    /\ index = 0
    /\ seeks = <<>>
    /\ images = {}

tabsVars == <<uploaded_csv, tab, uploaded_files, file_no, downloads, calls>>
framesVars == <<df, fps, frame_count, video, index, seeks, images>>

-----------------------------------------------------------------------------
(* SpecFlatten: convert_gpx_to_rows applied to every document of at most   *)
(* MaxLen tracks, MaxLen segments per track and two points per segment.    *)
(* A point carries its own position, so that no two points of a document   *)
(* are equal, and every second point of a segment has no time.             *)

PointAt(t, s, p) ==
    [latitude |-> t,
     longitude |-> 10 * s + p,
     time |-> IF p % 2 = 1 THEN PyDatetime(5 * (t + s + p)) ELSE PyNone]

TrackShapes == UNION {[1..n -> 0..2] : n \in 0..MaxLen}
GpxShapes == UNION {[1..n -> TrackShapes] : n \in 0..MaxLen}

GpxOfShape(shape) ==
    [t \in DOMAIN shape |->
        [s \in DOMAIN shape[t] |->
            [p \in 1..shape[t][s] |-> PointAt(t, s, p)]]]

InitFlatten ==
    /\ pc = "flatten"
    /\ \E shape \in GpxShapes : gpx = GpxOfShape(shape)
    /\ rows = <<>>
    /\ messages = <<>>
    /\ FilterIdle /\ TabsIdle /\ FramesIdle

Flatten ==
    /\ pc = "flatten"
    /\ rows' = convert_gpx_to_rows([tracks |-> gpx]).value
    /\ pc' = "done"
    /\ UNCHANGED <<gpx, filtered, messages, tabsVars, framesVars>>

NextFlatten == Flatten

SpecFlatten == InitFlatten /\ [][NextFlatten]_vars

\* The positions (track, segment, point) of a document, and their order of
\* traversal.
Positions(doc) ==
    UNION {UNION {{<<t, s, p>> : p \in DOMAIN doc[t][s]} : s \in DOMAIN doc[t]} :
           t \in DOMAIN doc}

NotAfter(a, b) ==
    \/ a[1] < b[1]
    \/ a[1] = b[1] /\ a[2] < b[2]
    \/ a[1] = b[1] /\ a[2] = b[2] /\ a[3] <= b[3]

Rank(doc, pos) == Cardinality({q \in Positions(doc) : NotAfter(q, pos)})

\* C6: convert_gpx_to_rows emits one row per point, the row of the k-th point
\* in traversal order (tracks, then segments, then points) is the k-th row
\* and has trkpt_id = k - 1, never reset at a track or segment boundary, and
\* a point without a time gets the empty frame_time.
C6_FlattenDenseIds ==
    pc = "done" =>
        /\ Len(rows) = Cardinality(Positions(gpx))
        /\ \A pos \in Positions(gpx) :
            LET k == Rank(gpx, pos)
                point == gpx[pos[1]][pos[2]][pos[3]]
            IN /\ rows[k]["trkpt_id"] = PyInt(k - 1)
               /\ rows[k]["frame_latitude"] = PyFloat(point.latitude)
               /\ rows[k]["frame_longitude"] = PyFloat(point.longitude)
               /\ rows[k]["frame_time"] =
                    (IF point.time = PyNone THEN PyStr("")
                     ELSE PyStr(isoformat(point.time.datetime)))

\* A document of two tracks, the second starting after a two-segment first
\* track, with a point that has no time: its rows are out.
C6_Witness ==
    /\ pc = "done"
    /\ Len(gpx) = 2
    /\ Len(gpx[1]) = 2 /\ Len(gpx[1][1]) = 2 /\ Len(gpx[1][2]) = 1
    /\ Len(gpx[2]) = 1 /\ Len(gpx[2][1]) = 2
    /\ Len(rows) = 5
    /\ rows[2]["frame_time"] = PyStr("")
    /\ rows[4]["trkpt_id"] = PyInt(3)

-----------------------------------------------------------------------------
(* SpecFilter: filter_rows applied to every list of at most MaxRows rows   *)
(* over the points of Points.                                              *)

Points == {0, 2, 4} \X Coords

RowsOf(pts) ==
    [k \in DOMAIN pts |->
        MakeRow(k - 1, [latitude |-> pts[k][1], longitude |-> pts[k][2],
                        time |-> PyDatetime(10 * (k - 1))])]

InitFilter ==
    /\ pc = "filter"
    /\ \E n \in 0..MaxRows : \E pts \in [1..n -> Points] :
          rows = RowsOf(pts)
    /\ filtered = Return(<<>>)
    /\ messages = <<>>
    /\ FlattenIdle /\ TabsIdle /\ FramesIdle

FilterRows ==
    /\ pc = "filter"
    /\ filtered' = filter_rows(rows)
    /\ pc' = "done"
    /\ UNCHANGED <<gpx, rows, messages, tabsVars, framesVars>>

NextFilter == FilterRows

SpecFilter == InitFilter /\ [][NextFilter]_vars

Lat(row) == float(row["frame_latitude"]).value
Lon(row) == float(row["frame_longitude"]).value
Dist(r1, r2) == haversine(Lat(r1), Lon(r1), Lat(r2), Lon(r2))

\* C1: every two consecutive rows of the output of filter_rows are at least
\* 13 * 0.3048 m = 3.9624 m apart, whatever the order of the input.
C1_RetainedApart ==
    (pc = "done" /\ ~IsRaised(filtered)) =>
        \A i \in 1..(Len(filtered.value) - 1) :
            Dist(filtered.value[i], filtered.value[i + 1]) >= 39624

\* A track that doubles back: the third row is within the threshold of the
\* first one, and all three rows are retained.
C1_Witness ==
    /\ pc = "done"
    /\ Len(rows) = 3
    /\ ~IsRaised(filtered)
    /\ Len(filtered.value) = 3
    /\ Dist(rows[1], rows[3]) < 39624
    /\ Dist(rows[1], rows[3]) > 0

\* The input positions a greedy pass retains: position 1, and a later
\* position exactly when it is at least the threshold away from the nearest
\* retained position before it.
IsGreedy(rs, K) ==
    /\ 1 \in K
    /\ \A i \in 2..Len(rs) :
        LET base == CHOOSE j \in K : j < i /\ \A m \in K : m < i => m <= j
        IN (i \in K) <=> (Dist(rs[base], rs[i]) >= 39624)

\* The m-th position of K in increasing order.
Nth(K, m) == CHOOSE k \in K : Cardinality({j \in K : j <= k}) = m

\* C9: filter_rows is the single left-to-right greedy pass: the first row is
\* retained with empty direction and cardinal_direction, a later row is
\* retained if and only if it is at least the threshold away from the most
\* recently retained row, a retained row keeps its fields and gets the compass
\* direction of the bearing from the previous retained row and that
\* direction's first character, and the output is a subsequence of the input.
C9_GreedyReference ==
    (pc = "done" /\ Len(rows) > 0) =>
        /\ ~IsRaised(filtered)
        /\ \E K \in SUBSET (1..Len(rows)) :
            /\ IsGreedy(rows, K)
            /\ Len(filtered.value) = Cardinality(K)
            /\ \A m \in 1..Cardinality(K) :
                LET out == filtered.value[m]
                    src == rows[Nth(K, m)]
                IN /\ \A f \in DOMAIN src : out[f] = src[f]
                   /\ IF m = 1
                      THEN /\ out["direction"] = PyStr("")
                           /\ out["cardinal_direction"] = PyStr("")
                      ELSE LET prev == rows[Nth(K, m - 1)]
                               d == get_direction(calculate_bearing(
                                        Lat(prev), Lon(prev), Lat(src), Lon(src)))
                           IN /\ out["direction"] = PyStr(d)
                              /\ out["cardinal_direction"] = PyStr(SubSeq(d, 1, 1))

\* The track (0, 0), (0, 0.0001), (0, 0.0001): two rows are retained, the
\* second with direction E and cardinal_direction E.
C9_Witness ==
    /\ pc = "done"
    /\ Len(rows) = 3
    /\ <<Lat(rows[1]), Lon(rows[1])>> = <<0, 0>>
    /\ <<Lat(rows[2]), Lon(rows[2])>> = <<0, 10>>
    /\ <<Lat(rows[3]), Lon(rows[3])>> = <<0, 10>>
    /\ Len(filtered.value) = 2
    /\ filtered.value[2]["trkpt_id"] = PyInt(1)
    /\ filtered.value[2]["direction"] = PyStr("E")
    /\ filtered.value[2]["cardinal_direction"] = PyStr("E")

-----------------------------------------------------------------------------
(* SpecTabs: one run of the converter tab (tab1), of the CSV filtration    *)
(* tab (tab2) or of the one-step tab (tab3) on an uploaded input.          *)

\* os.path.splitext(name)[0] of a name with a three-letter extension.
Stem(name) == SubSeq(name, 1, Len(name) - 4)

Success(text) == [kind |-> "success", about |-> text, exc |-> ""]
Error(about, exc) == [kind |-> "error", about |-> about, exc |-> exc]
Download(data, file_name) == [data |-> data, file_name |-> file_name]

\* The body of the try of tab1 for one file.
Tab1Try(uploaded_file) ==
    LET converted == convert_gpx_to_rows(uploaded_file)
    IN IF IsRaised(converted) THEN converted
       ELSE write_csv(converted.value, RawFields)

\* The body of the try of tab3 for one file.
Tab3Try(uploaded_file) ==
    LET converted == convert_gpx_to_rows(uploaded_file)
    IN IF IsRaised(converted) THEN converted
       ELSE LET kept == filter_rows(converted.value)
            IN IF IsRaised(kept) THEN kept
               ELSE write_csv(kept.value, MetaFields)

\* The body of the try of tab2.
Tab2Try(csv) ==
    IF "bytes" \in DOMAIN csv THEN Raise("UnicodeDecodeError")
    ELSE LET kept == filter_rows(DictReader(csv))
         IN IF IsRaised(kept) THEN kept
            ELSE write_csv(kept.value, MetaFields)

\* Where the for loop over uploaded_files stands after file n of total: the
\* except clause of the try reports the error and the loop goes on.
LoopStopsOnError(here, n, total, raised) ==
    IF raised \/ n = total THEN "done" ELSE here
LoopAfter(here, n, total, raised) ==
    IF n = total THEN "done" ELSE here

Tab1File ==
    /\ pc = "tab1"
    /\ LET uploaded_file == uploaded_files[file_no]
           result == Tab1Try(uploaded_file)
       IN /\ calls' = Append(calls, file_no)
          /\ IF IsRaised(result)
             THEN /\ messages' = Append(messages, Error(uploaded_file.name, result.raised))
                  /\ UNCHANGED downloads
             ELSE /\ messages' = Append(messages, Success(Stem(uploaded_file.name) \o ".csv"))
                  /\ downloads' = Append(downloads,
                        Download(result.value, Stem(uploaded_file.name) \o ".csv"))
          /\ pc' = LoopAfter("tab1", file_no, Len(uploaded_files), IsRaised(result))
    /\ file_no' = file_no + 1
    /\ UNCHANGED <<gpx, rows, filtered, uploaded_csv, tab, uploaded_files, framesVars>>

Tab3File ==
    /\ pc = "tab3"
    /\ LET uploaded_file == uploaded_files[file_no]
           result == Tab3Try(uploaded_file)
       IN /\ calls' = Append(calls, file_no)
          /\ IF IsRaised(result)
             THEN /\ messages' = Append(messages, Error(uploaded_file.name, result.raised))
                  /\ UNCHANGED downloads
             ELSE /\ messages' = Append(messages,
                        Success(Stem(uploaded_file.name) \o " Metadata.csv"))
                  /\ downloads' = Append(downloads,
                        Download(result.value, Stem(uploaded_file.name) \o " Metadata.csv"))
          /\ pc' = LoopAfter("tab3", file_no, Len(uploaded_files), IsRaised(result))
    /\ file_no' = file_no + 1
    /\ UNCHANGED <<gpx, rows, filtered, uploaded_csv, tab, uploaded_files, framesVars>>

Tab2 ==
    /\ pc = "tab2"
    /\ LET result == Tab2Try(uploaded_csv)
       IN IF IsRaised(result)
          THEN /\ messages' = Append(messages, Error("CSV", result.raised))
               /\ UNCHANGED downloads
          ELSE /\ messages' = Append(messages, Success("track Metadata.csv"))
               /\ downloads' = Append(downloads,
                     Download(result.value, "track Metadata.csv"))
    /\ pc' = "done"
    /\ UNCHANGED <<gpx, rows, filtered, uploaded_csv, tab, uploaded_files, file_no,
                   calls, framesVars>>

\* The uploads of the model.  A GPX file is not UTF-8, not GPX, or a
\* document: without any point, of one point, or of the three points (0, 0),
\* (0, 0.0001), (0, 0.0001) in two tracks.
At(lat, lon, t) == [latitude |-> lat, longitude |-> lon, time |-> PyDatetime(t)]

GpxContents ==
    {[bytes |-> "not utf-8"],
     [text |-> "not gpx"],
     [tracks |-> << <<>>, << <<>> >> >>],
     [tracks |-> << << <<At(2, 4, 0)>> >> >>],
     [tracks |-> << << <<At(0, 0, 0), At(0, 10, 10)>> >>, << <<>>, <<At(0, 10, 20)>> >> >>]}

Named(content, name) == [name |-> name] @@ content

Batches ==
    UNION {{[k \in 1..n |-> Named(batch[k], "track" \o ToString(k) \o ".gpx")] :
                batch \in [1..n -> GpxContents]} : n \in 0..MaxFiles}

\* A CSV upload: any subset of the seven known columns and one unknown
\* column as the header, and up to MaxCsvRows data lines whose coordinate
\* cells are numbers or the text abc.
AllColumns == MetaFields \o <<"extra">>
Headers == {SelectSeq(AllColumns, LAMBDA c : c \in S) : S \in SUBSET SeqRange(AllColumns)}
CoordCells == {<<FloatRepr(0), FloatRepr(0)>>, <<FloatRepr(4), FloatRepr(0)>>,
               <<"abc", FloatRepr(0)>>, <<FloatRepr(0), "abc">>}

Cell(c, i, cells) ==
    IF c = "frame_latitude" THEN cells[1]
    ELSE IF c = "frame_longitude" THEN cells[2]
    ELSE IF c = "trkpt_id" THEN ToString(i - 1)
    ELSE IF c = "frame_time" THEN ""
    ELSE "x"

\* A file whose first line is empty has no data line either.
NoColumns == {[header |-> <<>>, lines |-> [i \in 1..n |-> <<>>]] : n \in 0..MaxCsvRows + 1}

CsvFiles ==
    {[bytes |-> "not utf-8"]} \cup
    ((UNION {{[header |-> h,
               lines |-> [i \in 1..n |-> [j \in DOMAIN h |-> Cell(h[j], i, cells[i])]]] :
                  h \in Headers, cells \in [1..n -> CoordCells]} :
             n \in 0..MaxCsvRows}) \ {f \in NoColumns : Len(f.lines) > 0})

InitTabs ==
    /\ tab \in {"tab1", "tab2", "tab3"}
    /\ IF tab = "tab2"
       THEN /\ uploaded_csv \in CsvFiles
            /\ uploaded_files = <<>>
            /\ pc = "tab2"
       ELSE /\ uploaded_csv = [header |-> <<>>, lines |-> <<>>]
            /\ uploaded_files \in Batches
            /\ pc = IF Len(uploaded_files) = 0 THEN "done" ELSE tab
    /\ file_no = 1
    /\ downloads = <<>>
    /\ messages = <<>>
    /\ calls = <<>>
    /\ rows = <<>>
    /\ FlattenIdle /\ FilterIdle /\ FramesIdle

NextTabs == Tab1File \/ Tab2 \/ Tab3File

SpecTabs == InitTabs /\ [][NextTabs]_vars

\* The name of the CSV the running tab offers for an uploaded file.
DownloadName(uploaded_file) ==
    Stem(uploaded_file.name) \o (IF tab = "tab1" THEN ".csv" ELSE " Metadata.csv")

ErrorsAbout(name) ==
    {i \in DOMAIN messages : messages[i].kind = "error" /\ messages[i].about = name}

DownloadsNamed(file_name) ==
    {i \in DOMAIN downloads : downloads[i].file_name = file_name}

\* C2: an empty track document (no point after flattening) fails with an
\* error and no CSV is offered for it, in the converter (tab1), in the
\* one-step tab (tab3) and, for a header-only file, in the CSV filtration
\* (tab2).
C2_EmptyDocumentFails ==
    pc = "done" =>
        /\ tab \in {"tab1", "tab3"} =>
            \A k \in DOMAIN uploaded_files :
                LET f == uploaded_files[k]
                IN ("tracks" \in DOMAIN f /\ Positions(f.tracks) = {}) =>
                      /\ DownloadsNamed(DownloadName(f)) = {}
                      /\ ErrorsAbout(f.name) # {}
        /\ tab = "tab2" =>
            (("header" \in DOMAIN uploaded_csv /\ Len(uploaded_csv.lines) = 0) =>
                /\ downloads = <<>>
                /\ ErrorsAbout("CSV") # {})

\* C7: in the CSV filtration, a header with an unknown column, a header that
\* lacks a column of the raw schema (trkpt_id, frame_latitude,
\* frame_longitude, frame_time), or a coordinate cell that is no number in
\* some row, makes the item fail: an error is shown and no CSV is offered.
C7_SchemaAndFormatErrors ==
    (pc = "done" /\ tab = "tab2" /\ "header" \in DOMAIN uploaded_csv) =>
        LET h == uploaded_csv.header
            unknown == \E j \in DOMAIN h : h[j] \notin SeqRange(MetaFields)
            missing == \E c \in SeqRange(RawFields) : c \notin SeqRange(h)
            unparsed == \E i \in DOMAIN uploaded_csv.lines : \E j \in DOMAIN h :
                            /\ h[j] \in {"frame_latitude", "frame_longitude"}
                            /\ uploaded_csv.lines[i][j] = "abc"
        IN (unknown \/ missing \/ unparsed) =>
              /\ downloads = <<>>
              /\ ErrorsAbout("CSV") # {}

\* C8: in a batch of track files, a file that cannot be decoded or parsed, or
\* (where the rows are filtered) has no point, is reported once with its name
\* and yields no CSV; no file is handed to the converter twice; every other
\* file of the batch, before or after it, yields its own CSV.
C8_BatchIsolation ==
    (pc = "done" /\ tab \in {"tab1", "tab3"}) =>
        /\ calls = [k \in 1..Len(uploaded_files) |-> k]
        /\ \A k \in DOMAIN uploaded_files :
            LET f == uploaded_files[k]
                fails == \/ "bytes" \in DOMAIN f
                         \/ "text" \in DOMAIN f
                         \/ (tab = "tab3" /\ Positions(f.tracks) = {})
            IN IF fails
               THEN /\ Cardinality(ErrorsAbout(f.name)) = 1
                    /\ DownloadsNamed(DownloadName(f)) = {}
               ELSE /\ Cardinality(DownloadsNamed(DownloadName(f))) = 1
                    /\ ErrorsAbout(f.name) = {}

\* A batch of three files whose second file is not GPX: it is reported, and
\* the first and the third file have their CSV.
C8_Witness ==
    /\ pc = "done"
    /\ tab = "tab3"
    /\ Len(uploaded_files) = 3
    /\ "text" \in DOMAIN uploaded_files[2]
    /\ messages[2] = Error("track2.gpx", "GPXXMLSyntaxException")
    /\ Len(downloads) = 2
    /\ downloads[1].file_name = "track1 Metadata.csv"
    /\ downloads[2].file_name = "track3 Metadata.csv"
    /\ Len(downloads[2].data.lines) = 2

-----------------------------------------------------------------------------
(* SpecFrames: one run of the frame extraction tab (tab4).                 *)

\* The instants of the model, in tenths of a second, and what pandas reads
\* from an empty frame_time cell.
Times == {0, 1, 10, 25}
PyNaN == [nan |-> TRUE]

\* datetime.fromisoformat: TypeError for what is no str (NaN), ValueError for
\* a str that is no ISO instant.
fromisoformat(v) ==
    IF "str" \notin DOMAIN v THEN Raise("TypeError")
    ELSE IF \E t \in Times : isoformat(t) = v.str
         THEN Return(CHOOSE t \in Times : isoformat(t) = v.str)
         ELSE Raise("ValueError")

\* int(x) of the quotient num / den, den > 0: truncation toward zero.
IntFloor(num, den) == num \div den
int(num, den) == IF num >= 0 THEN num \div den ELSE -((-num) \div den)

\* time_diff = (timestamp - start_time).total_seconds();
\* frame_no = int(time_diff * fps), the instants being tenths of a second.
FrameNo(timestamp, start_time, rate) ==
    LET time_diff == timestamp - start_time
    IN int(time_diff * rate, 10)

\* video.set(cv2.CAP_PROP_POS_FRAMES, frame_no); success, frame = video.read().
\* A frame of the stream is read; a position past the last frame is not.
\* What a negative position does is the decoder backend's choice (clamps):
\* it either fails the read or clamps the position to frame 0 and reads it.
VideoRead(frame_no, frames, clamps) ==
    IF frame_no < 0 THEN clamps ELSE frame_no < frames

\* decimal_to_dms, the decimal being in 1e-5 degrees.
decimal_to_dms(decimal) ==
    LET magnitude == IF decimal < 0 THEN -decimal ELSE decimal
        degrees == magnitude \div 100000
        minutes == ((magnitude % 100000) * 60) \div 100000
        seconds100 == ((((magnitude % 100000) * 60) % 100000) * 6000) \div 100000
    IN <<<<degrees, 1>>, <<minutes, 1>>, <<seconds100, 100>>>>

create_gps_exif(lat, lon) ==
    [GPSLatitudeRef |-> IF lat >= 0 THEN "N" ELSE "S",
     GPSLatitude |-> decimal_to_dms(lat),
     GPSLongitudeRef |-> IF lon >= 0 THEN "E" ELSE "W",
     GPSLongitude |-> decimal_to_dms(lon)]

Warning(about) == [kind |-> "warning", about |-> about, exc |-> ""]
Info(text) == [kind |-> "info", about |-> text, exc |-> ""]

\* The body of the try of one iteration, for the row at position i (from 0):
\* what it reports, the seek it makes and the image file it leaves.
PointStep(i, row, first, rate, frames, clamps) ==
    LET timestamp == fromisoformat(row.frame_time)
        start_time == fromisoformat(first.frame_time)
    IN IF IsRaised(timestamp)
       THEN [report |-> Error(ToString(i), timestamp.raised), seek |-> <<>>, image |-> {}]
       ELSE IF IsRaised(start_time)
       THEN [report |-> Error(ToString(i), start_time.raised), seek |-> <<>>, image |-> {}]
       ELSE LET frame_no == FrameNo(timestamp.value, start_time.value, rate)
                success == VideoRead(frame_no, frames, clamps)
                done == [row |-> i, frame_no |-> frame_no, success |-> success]
                lat == float(row.frame_latitude)
                lon == float(row.frame_longitude)
            IN IF ~success
               THEN [report |-> Warning(ToString(i)), seek |-> <<done>>, image |-> {}]
               ELSE IF IsRaised(lat) \/ IsRaised(lon)
               THEN [report |-> Error(ToString(i), "ValueError"), seek |-> <<done>>,
                     image |-> {[frame |-> frame_no, by |-> i, gps |-> <<>>]}]
               ELSE [report |-> Info("saved"), seek |-> <<done>>,
                     image |-> {[frame |-> frame_no, by |-> i,
                                 gps |-> <<create_gps_exif(lat.value, lon.value)>>]}]

\* Where the run stands after an iteration whose body raised: the except
\* clause of the inner try reports the error and the loop goes on.
ErrorEscapes(next) == "failed"
AfterPointError(next) == next

\* Lines 203-226: the uploads are saved, the table is read and the video is
\* opened.  A metadata file without any line makes pd.read_csv raise.
Load ==
    /\ pc = "start"
    /\ \/ /\ Len(df) = 0
          /\ messages' = messages \o <<Info("Processing files..."),
                                       Error("files", "EmptyDataError")>>
          /\ pc' = "failed"
          /\ UNCHANGED video
       \/ /\ messages' = Append(messages, Info("Processing files..."))
          /\ video' = "open"
          /\ pc' = "makedirs"
    /\ UNCHANGED <<gpx, rows, filtered, tabsVars, df, fps, frame_count, index,
                   seeks, images>>

\* Lines 229-231: the output folder is created, which the file system may
\* refuse (OSError).
MakeDirs ==
    /\ pc = "makedirs"
    /\ \/ /\ messages' = Append(messages, Error("files", "OSError"))
          /\ pc' = "failed"
       \/ /\ messages' = Append(messages, Info("Starting frame extraction..."))
          /\ pc' = IF Len(df) = 0 THEN "release" ELSE "loop"
    /\ UNCHANGED <<gpx, rows, filtered, tabsVars, framesVars>>

\* Lines 254-283: one iteration of the loop over df.iterrows().
LoopIter ==
    /\ pc = "loop"
    /\ \E clamps \in BOOLEAN :
        LET step == PointStep(index, df[index + 1], df[1], fps, frame_count, clamps)
            next == IF index + 1 = Len(df) THEN "release" ELSE "loop"
        IN /\ seeks' = seeks \o step.seek
           /\ images' = {im \in images : \A new \in step.image : im.frame # new.frame}
                            \cup step.image
           /\ messages' = IF step.report.kind = "info" THEN messages
                          ELSE Append(messages, step.report)
           /\ pc' = IF step.report.kind = "error" THEN AfterPointError(next) ELSE next
    /\ index' = index + 1
    /\ UNCHANGED <<gpx, rows, filtered, tabsVars, df, fps, frame_count, video>>

\* Lines 285-287.
Release ==
    /\ pc = "release"
    /\ video' = "released"
    /\ messages' = Append(messages, Success("Done!"))
    /\ pc' = "done"
    /\ UNCHANGED <<gpx, rows, filtered, tabsVars, df, fps, frame_count, index,
                   seeks, images>>

\* The metadata tables of the model: up to MaxPoints rows, each with an
\* instant of Times or no frame_time and a latitude, or with the latitude
\* text abc.
TimeCells == {PyStr(isoformat(t)) : t \in Times} \cup {PyNaN}
RowCells == (TimeCells \X {PyFloat(4)}) \cup {<<PyStr(isoformat(10)), PyStr("abc")>>}
FpsValues == {5, 10}
FrameCounts == {12}

InitFrames ==
    /\ pc = "start"
    /\ \E n \in 0..MaxPoints : \E cells \in [1..n -> RowCells] :
          df = [k \in 1..n |-> [frame_time |-> cells[k][1],
                                frame_latitude |-> cells[k][2],
                                frame_longitude |-> PyFloat(10)]]
    /\ fps \in FpsValues
    /\ frame_count \in FrameCounts
    /\ video = "none"
    /\ index = 0
    /\ seeks = <<>>
    /\ images = {}
    /\ messages = <<>>
    /\ rows = <<>>
    /\ FlattenIdle /\ FilterIdle /\ TabsIdle

NextFrames == Load \/ MakeDirs \/ LoopIter \/ Release

SpecFrames == InitFrames /\ [][NextFrames]_vars

\* The instant of the k-th row of the table, when it has one.
TimeAt(k) == CHOOSE t \in Times : PyStr(isoformat(t)) = df[k].frame_time

ReportsAbout(kind, k) ==
    {i \in DOMAIN messages : messages[i].kind = kind /\ messages[i].about = ToString(k)}
SeeksBy(k) == {i \in DOMAIN seeks : seeks[i].row = k}
ImagesBy(k) == {im \in images : im.by = k}

\* n is x / 10 truncated toward zero.
IsTruncated(n, x) ==
    /\ x >= 0 => (10 * n <= x /\ x < 10 * (n + 1))
    /\ x < 0 => (10 * n >= x /\ x > 10 * (n - 1))

\* The frame index of every seek is (timestamp of the row - timestamp of the
\* first row) * fps truncated toward zero, and every row reached by the loop
\* that has a timestamp is sought once when the first row has one.
FrameIndexTruncated ==
    /\ \A i \in DOMAIN seeks :
        LET e == seeks[i]
        IN IsTruncated(e.frame_no, (TimeAt(e.row + 1) - TimeAt(1)) * fps)
    /\ \A k \in 0..(index - 1) :
        (df[k + 1].frame_time # PyNaN /\ df[1].frame_time # PyNaN)
            => Cardinality(SeeksBy(k)) = 1

C3_OutOfRangeRejected ==
    \A i \in DOMAIN seeks :
        LET e == seeks[i]
        IN (e.frame_no < 0 \/ e.frame_no >= frame_count) =>
              /\ ~e.success
              /\ ImagesBy(e.row) = {}
              /\ ReportsAbout("warning", e.row) # {}
              /\ pc # "failed"

C10_HandleReleased ==
    pc \in {"done", "failed"} => video # "open"

=============================================================================
